---- MODULE Spec2Model ----
(***************************************************************************)
(* Model of meteoblue.py: the Meteoblue weather add-on for Home Assistant. *)
(*                                                                         *)
(* Python values are modelled as follows.                                  *)
(*   dict            a function; "k in d" is k \in DOMAIN d                *)
(*   Optional value  a sequence of length 0 (None) or 1 (<<v>>)            *)
(*   list            a sequence; Python's a[i] is a[i + 1]                 *)
(*   JSON scalar     [t |-> "int", v |-> 20] or [t |-> "str", v |-> "x"]   *)
(*   JSON section    [t |-> "obj", v |-> dict] or [t |-> "null"]           *)
(*   a call that may raise returns a record with a field raised            *)
(***************************************************************************)
EXTENDS Integers, Sequences, FiniteSets, TLC

VARIABLES
    pc,            \* position of main()
    config,        \* the options dict loaded from CONFIG_PATH
    token,         \* whether SUPERVISOR_TOKEN is set in the environment
    session,       \* MeteoblueClient.session: "none", "open", "closed"
    mqtt,          \* the paho client: [connected, loop_running]
    exit_code,     \* Optional: the code passed to sys.exit
    discovery,     \* retained discovery messages published so far, in order
    published,     \* state messages published in the current poll cycle
    log,           \* error-level log lines of the current poll cycle
    call,          \* the current poll cycle (the response, its result), or
                   \* the call made on a single operation
    hist           \* counters: fetch attempts, sleeps since the last attempt,
                   \* the last sleep's length, session setups and closes

vars == <<pc, config, token, session, mqtt, exit_code,
          discovery, published, log, call, hist>>

----------------------------------------------------------------------------
(* Bounds of the model. *)

MaxDays == 2          \* longest data_day array a response carries
MaxForecastDays == 2  \* largest configured forecast_days
MaxCycles == 2        \* poll cycles followed

(* Constants of the program. *)

DefaultForecastDays == 7
DefaultUpdateInterval == 30
SecondsPerMinute == 60
HttpOk == 200

METEOBLUE_API == "https://my.meteoblue.com/packages"
HASSIO_API == "http://supervisor/core/api"

----------------------------------------------------------------------------
(* Python helpers. *)

None == <<>>
Some(v) == <<v>>

\* dict.get(k): None when the key is missing
Get(d, k) == IF k \in DOMAIN d THEN Some(d[k]) ELSE None

\* dict.get(k, default)
GetOr(d, k, default) == IF k \in DOMAIN d THEN d[k] ELSE default

\* truth value of an Optional number: None and 0 are falsy
Truthy(o) == o # None /\ o[1] # 0

EmptyDict == [k \in {} |-> 0]

\* str(x) of a JSON scalar
Str(x) == IF x.t = "int" THEN ToString(x.v) ELSE x.v

\* sep.join(parts)
RECURSIVE Join(_, _)
Join(parts, sep) ==
    IF parts = <<>> THEN ""
    ELSE IF Len(parts) = 1 THEN parts[1]
    ELSE parts[1] \o sep \o Join(Tail(parts), sep)

\* str.lower() of the words the sensor names are made of
Lower(w) ==
    CASE w = "Temperature" -> "temperature"
      [] w = "Wind" -> "wind"
      [] w = "Speed" -> "speed"
      [] w = "Direction" -> "direction"
      [] w = "Humidity" -> "humidity"
      [] w = "Pictocode" -> "pictocode"
      [] w = "Is" -> "is"
      [] w = "Daylight" -> "daylight"
      [] w = "Forecast" -> "forecast"
      [] w = "Day" -> "day"
      [] w = "Temp" -> "temp"
      [] w = "Max" -> "max"
      [] w = "Min" -> "min"
      [] w = "Precipitation" -> "precipitation"
      [] w = "Sunrise" -> "sunrise"
      [] w = "Sunset" -> "sunset"
      [] w = "Moonrise" -> "moonrise"
      [] w = "Moonset" -> "moonset"
      [] w = "Moon" -> "moon"
      [] w = "Phase" -> "phase"
      [] OTHER -> w

LowerAll(ws) == [i \in 1..Len(ws) |-> Lower(ws[i])]

----------------------------------------------------------------------------
(* HomeAssistantPublisher.  A sensor name is the sequence of its words:    *)
(* the name itself is the words joined by " ", and                         *)
(* name.lower().replace(" ", "_") is the lowered words joined by "_".      *)

device_info ==
    [identifiers |-> <<"meteoblue_weather">>, name |-> "Meteoblue Weather",
     model |-> "Weather Station", manufacturer |-> "Meteoblue"]

\* config[k] = o[1] when the Optional string o is truthy
WithIf(d, k, o) == IF o # None /\ o[1] # "" THEN (k :> o[1]) @@ d ELSE d

\* the entity id publish_discovery derives from a name
EntityId(name) == Join(LowerAll(name), "_")

\* the message publish_discovery hands to mqtt_client.publish
publish_discovery(sensor_type, name, unit, device_class, state_class, icon) ==
    LET entity_id == EntityId(name)
        base == [name |-> Join(name, " "),
                 unique_id |-> "meteoblue_" \o entity_id,
                 state_topic |-> "meteoblue/" \o entity_id \o "/state",
                 device |-> device_info]
        cfg == WithIf(WithIf(WithIf(WithIf(base,
                    "unit_of_measurement", unit),
                    "device_class", device_class),
                    "state_class", state_class),
                    "icon", icon)
    IN  [topic |-> "homeassistant/sensor/meteoblue/" \o entity_id \o "/config",
         payload |-> cfg,
         retain |-> TRUE]

\* the message publish_state hands to mqtt_client.publish
publish_state(entity_id, state) ==
    [topic |-> "meteoblue/" \o entity_id \o "/state",
     payload |-> Str(state),
     retain |-> FALSE]

setup_current_sensors ==
    << publish_discovery("sensor", <<"Temperature">>, Some("degC"), Some("temperature"), Some("measurement"), Some("mdi:thermometer")),
       publish_discovery("sensor", <<"Wind", "Speed">>, Some("m/s"), None, Some("measurement"), Some("mdi:weather-windy")),
       publish_discovery("sensor", <<"Wind", "Direction">>, Some("deg"), None, Some("measurement"), Some("mdi:compass")),
       publish_discovery("sensor", <<"Humidity">>, Some("%"), Some("humidity"), Some("measurement"), Some("mdi:water-percent")),
       publish_discovery("sensor", <<"Pictocode">>, None, None, None, Some("mdi:weather-partly-cloudy")),
       publish_discovery("sensor", <<"Is", "Daylight">>, None, None, None, Some("mdi:weather-sunny")) >>

\* the body of setup_forecast_sensors' loop for one day
ForecastDaySensors(day) ==
    << publish_discovery("sensor", <<"Forecast", "Day", ToString(day), "Temp", "Max">>, Some("degC"), Some("temperature"), None, Some("mdi:thermometer-high")),
       publish_discovery("sensor", <<"Forecast", "Day", ToString(day), "Temp", "Min">>, Some("degC"), Some("temperature"), None, Some("mdi:thermometer-low")),
       publish_discovery("sensor", <<"Forecast", "Day", ToString(day), "Precipitation">>, Some("mm"), None, None, Some("mdi:weather-rainy")),
       publish_discovery("sensor", <<"Forecast", "Day", ToString(day), "Pictocode">>, None, None, None, Some("mdi:weather-partly-cloudy")) >>

\* for day in range(from, days)
RECURSIVE ForecastSensorsFrom(_, _)
ForecastSensorsFrom(day, days) ==
    IF day >= days THEN <<>>
    ELSE ForecastDaySensors(day) \o ForecastSensorsFrom(day + 1, days)

\* variant: the loop starts at day 1, "for day in range(1, days)"
setup_forecast_sensors_from_day1(days) == ForecastSensorsFrom(1, days)

setup_forecast_sensors(days) == ForecastSensorsFrom(0, days)

setup_sunmoon_sensors ==
    << publish_discovery("sensor", <<"Sunrise">>, None, Some("timestamp"), None, Some("mdi:weather-sunset-up")),
       publish_discovery("sensor", <<"Sunset">>, None, Some("timestamp"), None, Some("mdi:weather-sunset-down")),
       publish_discovery("sensor", <<"Moonrise">>, None, Some("timestamp"), None, Some("mdi:moon-waxing-crescent")),
       publish_discovery("sensor", <<"Moonset">>, None, Some("timestamp"), None, Some("mdi:moon-waning-crescent")),
       publish_discovery("sensor", <<"Moon", "Phase">>, None, None, None, Some("mdi:moon-full")) >>

\* data.get(section, {}): the section as the response carries it
Section(data, key) == GetOr(data, key, [t |-> "obj", v |-> EmptyDict])

\* "if k in d: publish_state(entity_id, d[k])"
StateIfIn(d, k, entity_id) ==
    IF k \in DOMAIN d THEN <<publish_state(entity_id, d[k])>> ELSE <<>>

\* variant: a missing temperature is published as 0,
\* 'current.get("temperature", 0)'
publish_current_weather_default(data) ==
    LET current == Section(data, "data_current")
    IN  IF current.t # "obj"
        THEN [raised |-> TRUE, msgs |-> <<>>]
        ELSE [raised |-> FALSE,
              msgs |-> <<publish_state("temperature",
                             GetOr(current.v, "temperature", [t |-> "int", v |-> 0]))>>
                    \o StateIfIn(current.v, "windspeed", "wind_speed")
                    \o StateIfIn(current.v, "winddirection", "wind_direction")
                    \o StateIfIn(current.v, "relativehumidity", "humidity")
                    \o StateIfIn(current.v, "pictocode", "pictocode")
                    \o StateIfIn(current.v, "isdaylight", "is_daylight")]

\* publish_current_weather: '"temperature" in None' raises TypeError when
\* data_current is JSON null
publish_current_weather(data) ==
    LET current == Section(data, "data_current")
    IN  IF current.t # "obj"
        THEN [raised |-> TRUE, msgs |-> <<>>]
        ELSE [raised |-> FALSE,
              msgs |-> StateIfIn(current.v, "temperature", "temperature")
                    \o StateIfIn(current.v, "windspeed", "wind_speed")
                    \o StateIfIn(current.v, "winddirection", "wind_direction")
                    \o StateIfIn(current.v, "relativehumidity", "humidity")
                    \o StateIfIn(current.v, "pictocode", "pictocode")
                    \o StateIfIn(current.v, "isdaylight", "is_daylight")]

\* "if k in forecast and i < len(forecast[k]): publish_state(..., forecast[k][i])"
ForecastStateIf(forecast, k, i, suffix) ==
    IF k \in DOMAIN forecast /\ i < Len(forecast[k])
    THEN <<publish_state("forecast_day_" \o ToString(i) \o suffix, forecast[k][i + 1])>>
    ELSE <<>>

\* the body of publish_forecast's loop for index i
ForecastDayStates(forecast, i) ==
       ForecastStateIf(forecast, "temperature_max", i, "_temp_max")
    \o ForecastStateIf(forecast, "temperature_min", i, "_temp_min")
    \o ForecastStateIf(forecast, "precipitation", i, "_precipitation")
    \o ForecastStateIf(forecast, "pictocode", i, "_pictocode")

\* for i, time in enumerate(times), from index i on
RECURSIVE ForecastStatesFrom(_, _, _)
ForecastStatesFrom(forecast, i, times) ==
    IF i >= Len(times) THEN <<>>
    ELSE ForecastDayStates(forecast, i) \o ForecastStatesFrom(forecast, i + 1, times)

\* "not d" of a section: None and {} are falsy
Falsy(section) == section.t # "obj" \/ DOMAIN section.v = {}

\* variant: the loop skips index 0
publish_forecast_from_day1(data) ==
    LET forecast == Section(data, "data_day")
    IN  IF Falsy(forecast) THEN <<>>
        ELSE ForecastStatesFrom(forecast.v, 1, GetOr(forecast.v, "time", <<>>))

publish_forecast(data) ==
    LET forecast == Section(data, "data_day")
    IN  IF Falsy(forecast) THEN <<>>
        ELSE ForecastStatesFrom(forecast.v, 0, GetOr(forecast.v, "time", <<>>))

\* variant: the last element, sunmoon[k][-1], is published
SunmoonStateIfLast(sunmoon, k, entity_id) ==
    IF k \in DOMAIN sunmoon /\ sunmoon[k] # <<>>
    THEN <<publish_state(entity_id, sunmoon[k][Len(sunmoon[k])])>>
    ELSE <<>>

\* "if k in sunmoon and sunmoon[k]: publish_state(entity_id, sunmoon[k][0])"
SunmoonStateIf(sunmoon, k, entity_id) ==
    IF k \in DOMAIN sunmoon /\ sunmoon[k] # <<>>
    THEN <<publish_state(entity_id, sunmoon[k][1])>>
    ELSE <<>>

publish_sunmoon(data) ==
    LET sunmoon == Section(data, "data_day")
    IN  IF Falsy(sunmoon) \/ GetOr(sunmoon.v, "time", <<>>) = <<>> THEN <<>>
        ELSE   SunmoonStateIf(sunmoon.v, "sunrise", "sunrise")
            \o SunmoonStateIf(sunmoon.v, "sunset", "sunset")
            \o SunmoonStateIf(sunmoon.v, "moonrise", "moonrise")
            \o SunmoonStateIf(sunmoon.v, "moonset", "moonset")
            \o SunmoonStateIf(sunmoon.v, "moonphasename", "moon_phase")

\* main, lines 340-345: the publish steps of one cycle; an exception ends them
PublishData(data) ==
    LET cur == IF "data_current" \in DOMAIN data
               THEN publish_current_weather(data)
               ELSE [raised |-> FALSE, msgs |-> <<>>]
    IN  IF cur.raised THEN cur
        ELSE IF "data_day" \in DOMAIN data
        THEN [raised |-> FALSE,
              msgs |-> cur.msgs \o publish_forecast(data) \o publish_sunmoon(data)]
        ELSE cur

----------------------------------------------------------------------------
(* MeteoblueClient.  An HTTP response is [status, json_ok, data]: json_ok  *)
(* is whether resp.json() parses the body, data the parsed dict.           *)

\* variant: "if not lat or not lon", which takes a configured 0 for missing
get_coordinates_truthy(cfg, tok, ha) ==
    LET lat == Get(cfg, "latitude")
        lon == Get(cfg, "longitude")
        elevation == Get(cfg, "elevation")
        request == HASSIO_API \o "/config"
    IN  IF ~Truthy(lat) \/ ~Truthy(lon)
        THEN IF ~tok
             THEN [raised |-> TRUE, requests |-> <<>>]
             ELSE IF ha.status # HttpOk
             THEN [raised |-> TRUE, requests |-> <<request>>]
             ELSE [raised |-> FALSE, requests |-> <<request>>,
                   lat |-> GetOr(ha.data, "latitude", 0),
                   lon |-> GetOr(ha.data, "longitude", 0),
                   elevation |-> IF ~Truthy(elevation)
                                 THEN Get(ha.data, "elevation")
                                 ELSE elevation]
        ELSE [raised |-> FALSE, requests |-> <<>>,
              lat |-> lat[1], lon |-> lon[1], elevation |-> elevation]

\* get_coordinates: the result (lat, lon, elevation), whether it raised,
\* and the GET requests it sent over the session
get_coordinates(cfg, tok, ha) ==
    LET lat == Get(cfg, "latitude")
        lon == Get(cfg, "longitude")
        elevation == Get(cfg, "elevation")
        request == HASSIO_API \o "/config"
    IN  IF lat = None \/ lon = None
        THEN IF ~tok
             THEN [raised |-> TRUE, requests |-> <<>>]
             ELSE IF ha.status # HttpOk
             THEN [raised |-> TRUE, requests |-> <<request>>]
             ELSE [raised |-> FALSE, requests |-> <<request>>,
                   lat |-> GetOr(ha.data, "latitude", 0),
                   lon |-> GetOr(ha.data, "longitude", 0),
                   elevation |-> IF ~Truthy(elevation)
                                 THEN Get(ha.data, "elevation")
                                 ELSE elevation]
        ELSE [raised |-> FALSE, requests |-> <<>>,
              lat |-> lat[1], lon |-> lon[1], elevation |-> elevation]

\* variant: "if elevation:", which drops asl for an elevation of 0
build_url_truthy_asl(cfg, packages, lat, lon, elevation) ==
    LET package_str == Join(packages, "_")
        units == GetOr(cfg, "units", EmptyDict)
        temp_unit == GetOr(units, "temperature", "C")
        wind_unit == GetOr(units, "windspeed", "ms-1")
        precip_unit == GetOr(units, "precipitation", "mm")
        forecast_days == GetOr(cfg, "forecast_days", DefaultForecastDays)
        params == << "lat=" \o ToString(lat),
                     "lon=" \o ToString(lon),
                     "apikey=" \o cfg["api_key"],
                     "format=json",
                     "temperature=" \o temp_unit,
                     "windspeed=" \o wind_unit,
                     "precipitationamount=" \o precip_unit,
                     "forecast_days=" \o ToString(forecast_days),
                     "tz=UTC" >>
        all == IF Truthy(elevation)
               THEN Append(params, "asl=" \o ToString(elevation[1]))
               ELSE params
    IN  METEOBLUE_API \o "/" \o package_str \o "?" \o Join(all, "&")

\* build_url: the "k=v" query parameters, joined by "&" after the path
build_url(cfg, packages, lat, lon, elevation) ==
    LET package_str == Join(packages, "_")
        units == GetOr(cfg, "units", EmptyDict)
        temp_unit == GetOr(units, "temperature", "C")
        wind_unit == GetOr(units, "windspeed", "ms-1")
        precip_unit == GetOr(units, "precipitation", "mm")
        forecast_days == GetOr(cfg, "forecast_days", DefaultForecastDays)
        params == << "lat=" \o ToString(lat),
                     "lon=" \o ToString(lon),
                     "apikey=" \o cfg["api_key"],
                     "format=json",
                     "temperature=" \o temp_unit,
                     "windspeed=" \o wind_unit,
                     "precipitationamount=" \o precip_unit,
                     "forecast_days=" \o ToString(forecast_days),
                     "tz=UTC" >>
        all == IF elevation # None
               THEN Append(params, "asl=" \o ToString(elevation[1]))
               ELSE params
    IN  METEOBLUE_API \o "/" \o package_str \o "?" \o Join(all, "&")

DefaultPackages == <<"current", "basic-1h", "basic-day", "sunmoon">>

\* fetch_weather: whether it raised, the parsed body, the error lines it
\* logged, and what it called on the way
fetch_weather(cfg, tok, ha, wr) ==
    LET c == get_coordinates(cfg, tok, ha)
        packages == GetOr(cfg, "packages", DefaultPackages)
        url == build_url(cfg, packages, c.lat, c.lon, c.elevation)
    IN  IF c.raised
        THEN [raised |-> TRUE, log |-> <<"Error fetching weather">>,
              coords |-> c, url |-> None, requests |-> c.requests]
        ELSE IF wr.status # HttpOk
        THEN [raised |-> TRUE, log |-> <<"API error", "Error fetching weather">>,
              coords |-> c, url |-> Some(url), requests |-> Append(c.requests, url)]
        ELSE IF ~wr.json_ok
        THEN [raised |-> TRUE, log |-> <<"Error fetching weather">>,
              coords |-> c, url |-> Some(url), requests |-> Append(c.requests, url)]
        ELSE [raised |-> FALSE, log |-> <<>>, data |-> wr.data,
              coords |-> c, url |-> Some(url), requests |-> Append(c.requests, url)]

----------------------------------------------------------------------------
(* The inputs: configurations and the responses of the two HTTP services.  *)

\* the dicts that hold key k with a value of S, or do not hold it
Optional(k, S) == {EmptyDict} \cup {(k :> v) : v \in S}

ApiKey == "KEY"

\* options.json files main can load
MainConfigs ==
    { ("api_key" :> ApiKey) @@ a @@ d @@ e :
        a \in {EmptyDict, [latitude |-> 0, longitude |-> 8]},
        d \in Optional("forecast_days", 1..MaxForecastDays),
        e \in Optional("update_interval", {5}) }

\* GET {HASSIO_API}/config
HAResponses ==
    { [status |-> 500, json_ok |-> TRUE, data |-> EmptyDict] } \cup
    { [status |-> HttpOk, json_ok |-> TRUE, data |-> a @@ b] :
        a \in { EmptyDict, [latitude |-> 46, longitude |-> 7] },
        b \in Optional("elevation", {400}) }

\* a data_day array of n numbers, and one of n strings
IntArr(n) == [i \in 1..n |-> [t |-> "int", v |-> 20 + i]]
StrArr(n) == [i \in 1..n |-> [t |-> "str", v |-> "2024-01-0" \o ToString(i)]]

CurrentKeys ==
    {"temperature", "windspeed", "winddirection", "relativehumidity",
     "pictocode", "isdaylight"}
ForecastKeys == {"temperature_max", "temperature_min", "precipitation", "pictocode"}
SunmoonKeys == {"sunrise", "sunset", "moonrise", "moonset", "moonphasename"}

\* the data_day dict whose arrays have the lengths lens[k]
DayDict(lens) ==
    [k \in DOMAIN lens |-> IF k \in ForecastKeys THEN IntArr(lens[k]) ELSE StrArr(lens[k])]

\* the data_current dict holding the keys K
CurrentDict(K) == [k \in K |-> [t |-> "int", v |-> 10]]

Obj(d) == [t |-> "obj", v |-> d]
Null == [t |-> "null"]

\* the sets of fields a response of the poll loop carries
CurrentKeySets == { {}, {"temperature"}, CurrentKeys }
DayKeySets == { {}, {"temperature_max", "sunrise"}, ForecastKeys \cup SunmoonKeys }

\* array lengths of a data_day: time has length t (or is missing), every
\* other field of K has length n
MainDayLens ==
    { [k \in K \cup T |-> IF k = "time" THEN t ELSE n] :
        K \in DayKeySets, T \in {{}, {"time"}}, t \in 0..MaxDays, n \in 0..MaxDays }

\* parsed bodies of the weather provider's response
Snapshots ==
    { a @@ b :
        a \in {EmptyDict, [data_current |-> Null]}
              \cup { [data_current |-> Obj(CurrentDict(K))] : K \in CurrentKeySets },
        b \in {EmptyDict, [data_day |-> Null]}
              \cup { [data_day |-> Obj(DayDict(l))] : l \in MainDayLens } }

\* GET {METEOBLUE_API}/...
WeatherResponses ==
    { [status |-> 500, json_ok |-> TRUE, data |-> EmptyDict],
      [status |-> HttpOk, json_ok |-> FALSE, data |-> EmptyDict] } \cup
    { [status |-> HttpOk, json_ok |-> TRUE, data |-> d] : d \in Snapshots }

----------------------------------------------------------------------------
(* main() *)

Hist0 ==
    [attempts |-> 0, failures |-> 0, slept |-> 0, last_sleep |-> None,
     setups |-> 0, closes |-> 0, interrupted |-> FALSE]

NoCall == [fn |-> "none"]

Init ==
    /\ pc = "load_config"
    /\ config \in MainConfigs \cup {EmptyDict}
    /\ token \in BOOLEAN
    /\ session = "none"
    /\ mqtt = [connected |-> FALSE, loop_running |-> FALSE]
    /\ exit_code = None
    /\ discovery = <<>>
    /\ published = <<>>
    /\ log = <<>>
    /\ call = NoCall
    /\ hist = Hist0

\* sys.exit(1)
Exit1 ==
    /\ pc' = "exited"
    /\ exit_code' = Some(1)

\* lines 282-295: load the options; api_key is required
LoadConfig ==
    /\ pc = "load_config"
    /\ \E readable \in BOOLEAN :
         IF ~readable \/ "api_key" \notin DOMAIN config \/ config["api_key"] = ""
         THEN Exit1
         ELSE pc' = "get_mqtt_config" /\ UNCHANGED exit_code
    /\ UNCHANGED <<config, token, session, mqtt, discovery, published, log, call, hist>>

\* lines 297-303 with get_mqtt_config
GetMqttConfig ==
    /\ pc = "get_mqtt_config"
    /\ \E status \in {HttpOk, 500} :
         IF ~token \/ status # HttpOk
         THEN Exit1
         ELSE pc' = "connect" /\ UNCHANGED exit_code
    /\ UNCHANGED <<config, token, session, mqtt, discovery, published, log, call, hist>>

\* lines 305-316: connect and start the network loop
ConnectMqtt ==
    /\ pc = "connect"
    /\ \E ok \in BOOLEAN :
         IF ~ok
         THEN Exit1 /\ UNCHANGED mqtt
         ELSE /\ mqtt' = [connected |-> TRUE, loop_running |-> TRUE]
              /\ pc' = "client_setup"
              /\ UNCHANGED exit_code
    /\ UNCHANGED <<config, token, session, discovery, published, log, call, hist>>

\* lines 318-323: client.setup() opens the session
ClientSetup ==
    /\ pc = "client_setup"
    /\ session' = "open"
    /\ hist' = [hist EXCEPT !.setups = @ + 1]
    /\ pc' = "setup_current"
    /\ UNCHANGED <<config, token, mqtt, exit_code, discovery, published, log, call>>

\* line 326
SetupCurrentSensors ==
    /\ pc = "setup_current"
    /\ discovery' = discovery \o setup_current_sensors
    /\ pc' = "setup_forecast"
    /\ UNCHANGED <<config, token, session, mqtt, exit_code, published, log, call, hist>>

\* line 327
SetupForecastSensors ==
    /\ pc = "setup_forecast"
    /\ discovery' = discovery
           \o setup_forecast_sensors(GetOr(config, "forecast_days", DefaultForecastDays))
    /\ pc' = "setup_sunmoon"
    /\ UNCHANGED <<config, token, session, mqtt, exit_code, published, log, call, hist>>

\* lines 328-330
SetupSunmoonSensors ==
    /\ pc = "setup_sunmoon"
    /\ discovery' = discovery \o setup_sunmoon_sensors
    /\ pc' = "fetch"
    /\ UNCHANGED <<config, token, session, mqtt, exit_code, published, log, call, hist>>

\* lines 325-328 stand outside the try of line 333: an interrupt or error
\* raised there leaves main through neither except nor finally
SetupRaises ==
    /\ pc \in {"setup_current", "setup_forecast", "setup_sunmoon"}
    /\ pc' = "exited"
    /\ hist' = [hist EXCEPT !.interrupted = TRUE]
    /\ UNCHANGED <<config, token, session, mqtt, exit_code, discovery, published,
                   log, call>>

\* line 295
update_interval == GetOr(config, "update_interval", DefaultUpdateInterval) * SecondsPerMinute

\* variant: the handler ends in "continue" before the sleep
CycleFailedRetry(lines) ==
    /\ log' = Append(lines, "Error updating weather")
    /\ hist' = [hist EXCEPT !.attempts = @ + 1, !.slept = 0, !.failures = @ + 1]
    /\ pc' = "fetch"

\* lines 349-353: "except Exception" logs the error and swallows it; the
\* position main reaches next is the sleep of line 353
CycleFailed(lines) ==
    /\ log' = Append(lines, "Error updating weather")
    /\ hist' = [hist EXCEPT !.attempts = @ + 1, !.slept = 0, !.failures = @ + 1]
    /\ pc' = "sleep"

\* lines 335-350: one poll cycle, from the fetch to the last publish; the
\* code between the return of fetch_weather and the sleep never suspends
PollCycle ==
    /\ pc = "fetch"
    /\ hist.attempts < MaxCycles
    /\ \E ha \in HAResponses, wr \in WeatherResponses :
         LET f == fetch_weather(config, token, ha, wr)
             p == PublishData(f.data)
         IN  IF f.raised
             THEN /\ call' = [fn |-> "poll", result |-> "fetch_error"]
                  /\ published' = <<>>
                  /\ CycleFailed(f.log)
             ELSE /\ call' = [fn |-> "poll", weather_data |-> f.data,
                              result |-> IF p.raised THEN "publish_error" ELSE "ok"]
                  /\ published' = p.msgs
                  /\ IF p.raised
                     THEN CycleFailed(f.log)
                     ELSE /\ log' = f.log
                          /\ hist' = [hist EXCEPT !.attempts = @ + 1, !.slept = 0,
                                                  !.failures = 0]
                          /\ pc' = "sleep"
    /\ UNCHANGED <<config, token, session, mqtt, exit_code, discovery>>

\* line 353: await asyncio.sleep(update_interval); the next cycle starts
\* with nothing published and nothing logged
Sleep ==
    /\ pc = "sleep"
    /\ hist' = [hist EXCEPT !.slept = @ + 1, !.last_sleep = Some(update_interval)]
    /\ published' = <<>>
    /\ log' = <<>>
    /\ call' = NoCall
    /\ pc' = "fetch"
    /\ UNCHANGED <<config, token, session, mqtt, exit_code, discovery>>

\* lines 355-357: an interrupt inside the try of line 333 is not an
\* Exception; it leaves the loop for the finally clause
Interrupt ==
    /\ pc \in {"fetch", "sleep"}
    /\ pc' = "finally"
    /\ hist' = [hist EXCEPT !.interrupted = TRUE]
    /\ UNCHANGED <<config, token, session, mqtt, exit_code, discovery, published,
                   log, call>>

\* MeteoblueClient.close
close(s) == IF s # "none" THEN "closed" ELSE s

\* lines 357-360
Finally ==
    /\ pc = "finally"
    /\ session' = close(session)
    /\ hist' = [hist EXCEPT !.closes = IF session # "none" THEN @ + 1 ELSE @]
    /\ mqtt' = [connected |-> FALSE, loop_running |-> FALSE]
    /\ pc' = "exited"
    /\ UNCHANGED <<config, token, exit_code, discovery, published, log, call>>

Next ==
    \/ LoadConfig
    \/ GetMqttConfig
    \/ ConnectMqtt
    \/ ClientSetup
    \/ SetupCurrentSensors
    \/ SetupForecastSensors
    \/ SetupSunmoonSensors
    \/ SetupRaises
    \/ PollCycle
    \/ Sleep
    \/ Interrupt
    \/ Finally

Spec == Init /\ [][Next]_vars

----------------------------------------------------------------------------
(* Single operations: Init draws the arguments of one call, and the call   *)
(* is made.  pc is "call" before it and "return" after it.                 *)

\* every assignment of lengths 0..MaxDays to a subset of the keys K
AllLens(K) == UNION { [S -> 0..MaxDays] : S \in SUBSET K }

\* responses handed to publish_forecast and to publish_sunmoon
DayInputs(K) ==
    {EmptyDict, [data_day |-> Null]}
    \cup { [data_day |-> Obj(DayDict(l))] : l \in AllLens(K) }

\* configurations handed to build_url
UrlConfigs ==
    { ("api_key" :> ApiKey) @@ u @@ d :
        u \in Optional("units", { EmptyDict,
                                  [temperature |-> "F"],
                                  [temperature |-> "F", windspeed |-> "kmh",
                                   precipitation |-> "inch"] }),
        d \in Optional("forecast_days", 1..MaxForecastDays) }

\* configurations handed to get_coordinates
CoordConfigs ==
    { ("api_key" :> ApiKey) @@ a @@ b @@ c :
        a \in Optional("latitude", {0, 47}),
        b \in Optional("longitude", {0, 8}),
        c \in Optional("elevation", {0, 500}) }

UnitInit ==
    /\ pc = "call"
    /\ session = "open"
    /\ mqtt = [connected |-> TRUE, loop_running |-> TRUE]
    /\ exit_code = None
    /\ discovery = <<>>
    /\ published = <<>>
    /\ log = <<>>
    /\ hist = Hist0
    /\ \/ /\ config \in { ("api_key" :> ApiKey) @@ d :
                            d \in Optional("forecast_days", 1..MaxForecastDays) }
          /\ token = TRUE
          /\ \/ call \in { [fn |-> "publish_forecast", data |-> d] :
                             d \in DayInputs({"time"} \cup ForecastKeys) }
             \/ call \in { [fn |-> "publish_sunmoon", data |-> d] :
                             d \in DayInputs({"time"} \cup SunmoonKeys) }
       \/ /\ config \in UrlConfigs
          /\ token = TRUE
          /\ call \in [ fn : {"build_url"},
                        packages : { <<"current">>, <<"current", "basic-day">>,
                                     DefaultPackages },
                        lat : {0, 47, -33}, lon : {8},
                        elevation : {None, Some(0), Some(500)},
                        result : {None} ]
       \/ /\ config \in CoordConfigs
          /\ token \in BOOLEAN
          /\ call \in [ fn : {"get_coordinates"}, ha : HAResponses, result : {None} ]

CallPublishForecast ==
    /\ pc = "call" /\ call.fn = "publish_forecast"
    /\ published' = publish_forecast(call.data)
    /\ pc' = "return"
    /\ UNCHANGED <<config, token, session, mqtt, exit_code, discovery, log, call, hist>>

CallPublishSunmoon ==
    /\ pc = "call" /\ call.fn = "publish_sunmoon"
    /\ published' = publish_sunmoon(call.data)
    /\ pc' = "return"
    /\ UNCHANGED <<config, token, session, mqtt, exit_code, discovery, log, call, hist>>

CallBuildUrl ==
    /\ pc = "call" /\ call.fn = "build_url"
    /\ call' = [call EXCEPT !.result =
                   Some(build_url(config, call.packages, call.lat, call.lon,
                                  call.elevation))]
    /\ pc' = "return"
    /\ UNCHANGED <<config, token, session, mqtt, exit_code, discovery, published,
                   log, hist>>

CallGetCoordinates ==
    /\ pc = "call" /\ call.fn = "get_coordinates"
    /\ call' = [call EXCEPT !.result = Some(get_coordinates(config, token, call.ha))]
    /\ pc' = "return"
    /\ UNCHANGED <<config, token, session, mqtt, exit_code, discovery, published,
                   log, hist>>

UnitNext ==
    \/ CallPublishForecast
    \/ CallPublishSunmoon
    \/ CallBuildUrl
    \/ CallGetCoordinates

UnitSpec == UnitInit /\ [][UnitNext]_vars

----------------------------------------------------------------------------
(* Properties of the published messages. *)

\* the state topic of an entity
StateTopic(entity_id) == "meteoblue/" \o entity_id \o "/state"

\* how many of the messages msgs went to the topic
Count(msgs, topic) == Cardinality({ i \in 1..Len(msgs) : msgs[i].topic = topic })

\* the payloads sent to the topic
Payloads(msgs, topic) == { msgs[i].payload : i \in { j \in 1..Len(msgs) : msgs[j].topic = topic } }

\* the data_day dict of a response; empty when the section is missing or null
DayOf(data) ==
    IF "data_day" \in DOMAIN data /\ data["data_day"].t = "obj"
    THEN data["data_day"].v ELSE EmptyDict

\* the length of a data_day array, 0 when the field is missing
LenOf(day, k) == IF k \in DOMAIN day THEN Len(day[k]) ELSE 0

Min(a, b) == IF a <= b THEN a ELSE b

ForecastSuffix(k) ==
    CASE k = "temperature_max" -> "temp_max"
      [] k = "temperature_min" -> "temp_min"
      [] k = "precipitation" -> "precipitation"
      [] k = "pictocode" -> "pictocode"

SunmoonEntity(k) == IF k = "moonphasename" THEN "moon_phase" ELSE k

\* C3: publish_forecast publishes forecast_day_N_<field> exactly once for
\* every N below both len(data_day.time) and len(data_day.<field>), carrying
\* element N of the field, and publishes nothing else; the configured
\* forecast_days plays no part.
C3_ForecastByArrayLengths ==
    (pc = "return" /\ call.fn = "publish_forecast") =>
        LET day == DayOf(call.data)
        IN  /\ \A k \in ForecastKeys : \A N \in 0..(MaxDays + 1) :
                 LET topic == StateTopic("forecast_day_" \o ToString(N) \o "_" \o ForecastSuffix(k))
                 IN  IF N < LenOf(day, "time") /\ N < LenOf(day, k)
                     THEN /\ Count(published, topic) = 1
                          /\ Payloads(published, topic) = {Str(day[k][N + 1])}
                     ELSE Count(published, topic) = 0
            /\ Len(published) =
                   Min(LenOf(day, "time"), LenOf(day, "temperature_max"))
                 + Min(LenOf(day, "time"), LenOf(day, "temperature_min"))
                 + Min(LenOf(day, "time"), LenOf(day, "precipitation"))
                 + Min(LenOf(day, "time"), LenOf(day, "pictocode"))

\* C3 witness: a field longer than time, and more days than forecast_days
C3_Witness ==
    /\ pc = "return" /\ call.fn = "publish_forecast"
    /\ LenOf(DayOf(call.data), "time") = 2
    /\ LenOf(DayOf(call.data), "temperature_max") = 2
    /\ LenOf(DayOf(call.data), "temperature_min") = 1
    /\ "forecast_days" \in DOMAIN config /\ config["forecast_days"] = 1
    /\ Len(published) >= 3

\* the sun/moon fields of which publish_sunmoon publishes element 0
SunmoonPublishes(day, present) ==
    /\ \A k \in SunmoonKeys :
         LET topic == StateTopic(SunmoonEntity(k))
         IN  IF k \in present
             THEN /\ Count(published, topic) = 1
                  /\ Payloads(published, topic) = {Str(day[k][1])}
             ELSE Count(published, topic) = 0
    /\ Len(published) = Cardinality(present)

\* C4 as claimed: every sun/moon field whose array is present and non-empty
\* gets exactly one state message, carrying element 0, and nothing else is
\* published.
C4_Original ==
    (pc = "return" /\ call.fn = "publish_sunmoon") =>
        LET day == DayOf(call.data)
            present == { k \in SunmoonKeys : LenOf(day, k) > 0 }
        IN  SunmoonPublishes(day, present)

\* C4 amended: the same, provided data_day.time is present and non-empty;
\* when data_day.time is missing or empty publish_sunmoon publishes nothing.
C4_SunmoonFirstElement ==
    (pc = "return" /\ call.fn = "publish_sunmoon") =>
        LET day == DayOf(call.data)
            present == { k \in SunmoonKeys : LenOf(day, k) > 0 /\ LenOf(day, "time") > 0 }
        IN  SunmoonPublishes(day, present)

\* C4 witness: arrays of several days, of which only element 0 is published
C4_Witness ==
    /\ pc = "return" /\ call.fn = "publish_sunmoon"
    /\ LenOf(DayOf(call.data), "time") = 2
    /\ LenOf(DayOf(call.data), "sunrise") = 2
    /\ LenOf(DayOf(call.data), "moonphasename") = 0
    /\ "sunset" \notin DOMAIN DayOf(call.data)
    /\ Count(published, StateTopic("sunrise")) = 1

----------------------------------------------------------------------------
(* Properties of the Weather Client. *)

\* C6: with latitude and longitude both configured (0 included),
\* get_coordinates sends no request and returns exactly the configured
\* latitude and longitude, and the configured elevation or None.
C6_ConfiguredCoordinates ==
    (pc = "return" /\ call.fn = "get_coordinates"
        /\ "latitude" \in DOMAIN config /\ "longitude" \in DOMAIN config) =>
        LET r == call.result[1]
        IN  /\ ~r.raised
            /\ r.requests = <<>>
            /\ r.lat = config["latitude"]
            /\ r.lon = config["longitude"]
            /\ r.elevation = IF "elevation" \in DOMAIN config
                             THEN Some(config["elevation"]) ELSE None

\* C6 witness: latitude 0 is configured and no elevation
C6_Witness ==
    /\ pc = "return" /\ call.fn = "get_coordinates"
    /\ "latitude" \in DOMAIN config /\ config["latitude"] = 0
    /\ "longitude" \in DOMAIN config
    /\ "elevation" \notin DOMAIN config
    /\ call.result[1].requests = <<>>

\* C7 as claimed: lacking latitude or longitude, get_coordinates fails when
\* the credential is missing; otherwise it sends exactly one GET to the
\* config endpoint, fails when the status is not 200, and on success
\* returns the reported latitude and longitude (0 when absent) and the
\* configured elevation whenever one is configured, the reported one
\* otherwise.
C7_Original ==
    (pc = "return" /\ call.fn = "get_coordinates"
        /\ ("latitude" \notin DOMAIN config \/ "longitude" \notin DOMAIN config)) =>
        LET r == call.result[1]
            d == call.ha.data
        IN  IF ~token THEN r.raised
            ELSE /\ r.requests = <<"http://supervisor/core/api/config">>
                 /\ r.raised <=> call.ha.status # 200
                 /\ ~r.raised =>
                      /\ r.lat = IF "latitude" \in DOMAIN d THEN d["latitude"] ELSE 0
                      /\ r.lon = IF "longitude" \in DOMAIN d THEN d["longitude"] ELSE 0
                      /\ r.elevation =
                           IF "elevation" \in DOMAIN config THEN Some(config["elevation"])
                           ELSE IF "elevation" \in DOMAIN d THEN Some(d["elevation"])
                           ELSE None

\* C8: build_url returns the package names joined by "_" and the query
\* parameters lat, lon, apikey, format=json, temperature, windspeed,
\* precipitationamount, forecast_days, tz=UTC in that order, then asl
\* exactly when the elevation is not None; missing units default to C,
\* ms-1 and mm.
C8_UrlParameterOrder ==
    (pc = "return" /\ call.fn = "build_url") =>
        LET u == IF "units" \in DOMAIN config THEN config["units"] ELSE EmptyDict
            fixed ==
                "https://my.meteoblue.com/packages/" \o Join(call.packages, "_")
                \o "?lat=" \o ToString(call.lat)
                \o "&lon=" \o ToString(call.lon)
                \o "&apikey=" \o config["api_key"]
                \o "&format=json"
                \o "&temperature=" \o (IF "temperature" \in DOMAIN u THEN u["temperature"] ELSE "C")
                \o "&windspeed=" \o (IF "windspeed" \in DOMAIN u THEN u["windspeed"] ELSE "ms-1")
                \o "&precipitationamount=" \o (IF "precipitation" \in DOMAIN u THEN u["precipitation"] ELSE "mm")
                \o "&forecast_days=" \o (IF "forecast_days" \in DOMAIN config
                                          THEN ToString(config["forecast_days"]) ELSE "7")
                \o "&tz=UTC"
        IN  call.result[1] = IF call.elevation = None THEN fixed
                             ELSE fixed \o "&asl=" \o ToString(call.elevation[1])

\* C8 witness: an elevation of 0 is known, the units are the defaults
C8_Witness ==
    /\ pc = "return" /\ call.fn = "build_url"
    /\ call.elevation = Some(0)
    /\ "units" \notin DOMAIN config
    /\ call.packages = <<"current", "basic-day">>

----------------------------------------------------------------------------
(* Properties of main. *)

\* the entity ids of the catalogue for a number of forecast days
CatalogueIds(days) ==
    <<"temperature", "wind_speed", "wind_direction", "humidity", "pictocode",
      "is_daylight">>
    \o [i \in 1..(4 * days) |->
            "forecast_day_" \o ToString((i - 1) \div 4) \o
            (CASE (i - 1) % 4 = 0 -> "_temp_max"
               [] (i - 1) % 4 = 1 -> "_temp_min"
               [] (i - 1) % 4 = 2 -> "_precipitation"
               [] (i - 1) % 4 = 3 -> "_pictocode")]
    \o <<"sunrise", "sunset", "moonrise", "moonset", "moon_phase">>

ConfiguredDays == IF "forecast_days" \in DOMAIN config THEN config["forecast_days"] ELSE 7

\* C1: once a poll cycle has started or a state message is published, the
\* discovery messages published are those of the whole catalogue: 6 current
\* sensors, 4 per day 0..forecast_days-1, 5 sun/moon sensors, in that order.
C1_DiscoveryBeforeState ==
    (hist.attempts > 0 \/ published # <<>>) =>
        LET ids == CatalogueIds(ConfiguredDays)
        IN  /\ Len(discovery) = 6 + 4 * ConfiguredDays + 5
            /\ Len(discovery) = Len(ids)
            /\ \A i \in 1..Len(ids) :
                 /\ discovery[i].topic = "homeassistant/sensor/meteoblue/" \o ids[i] \o "/config"
                 /\ discovery[i].retain

\* C1 witness: state messages are out, for a catalogue of two forecast days
C1_Witness ==
    /\ published # <<>>
    /\ ConfiguredDays = 2
    /\ Len(discovery) = 19

\* C2: a cycle in which the fetch or a publish step raised logs the error
\* and goes on to the sleep; the loop is left by an interrupt only; every
\* fetch attempt but the first follows exactly one sleep of update_interval
\* minutes.
C2_FailedCycleSleeps ==
    /\ (call.fn = "poll" /\ call.result # "ok" /\ pc # "sleep") =>
          (hist.interrupted /\ pc \in {"finally", "exited"})
    /\ (call.fn = "poll" /\ call.result # "ok") =>
          (log # <<>> /\ log[Len(log)] = "Error updating weather" /\ exit_code = None)
    /\ (hist.attempts > 0 /\ pc \in {"finally", "exited"}) => hist.interrupted
    /\ pc = "sleep" => hist.slept = 0
    /\ (pc = "fetch" /\ hist.attempts > 0) =>
          /\ hist.slept = 1
          /\ hist.last_sleep =
               Some(60 * (IF "update_interval" \in DOMAIN config
                          THEN config["update_interval"] ELSE 30))

\* C2 witness: the next attempt is due after two failed cycles in a row
C2_Witness ==
    /\ pc = "fetch"
    /\ hist.failures >= 2
    /\ hist.slept = 1

\* the sections of a response are objects when present
WellFormed(data) ==
    \A s \in {"data_current", "data_day"} : s \in DOMAIN data => data[s].t = "obj"

CurrentEntity(k) ==
    CASE k = "windspeed" -> "wind_speed"
      [] k = "winddirection" -> "wind_direction"
      [] k = "relativehumidity" -> "humidity"
      [] k = "isdaylight" -> "is_daylight"
      [] OTHER -> k

\* the data_current dict of a well-formed response
CurrentOf(data) ==
    IF "data_current" \in DOMAIN data THEN data["data_current"].v ELSE EmptyDict

\* a cycle on a well-formed response ends without exception or error line,
\* and publishes each current field exactly when the response holds it
PartialCurrent(data) ==
    /\ call.result = "ok"
    /\ log = <<>>
    /\ \A k \in CurrentKeys :
         LET topic == StateTopic(CurrentEntity(k))
         IN  IF k \in DOMAIN CurrentOf(data)
             THEN /\ Count(published, topic) = 1
                  /\ Payloads(published, topic) = {Str(CurrentOf(data)[k])}
             ELSE Count(published, topic) = 0

\* C5 as claimed: missing sections and fields publish nothing, and every
\* field that is present (and not empty) is published.
C5_Original ==
    (call.fn = "poll" /\ call.result # "fetch_error" /\ WellFormed(call.weather_data)) =>
        LET day == DayOf(call.weather_data)
        IN  /\ PartialCurrent(call.weather_data)
            /\ \A k \in ForecastKeys :
                 LenOf(day, k) > 0 <=>
                 Count(published, StateTopic("forecast_day_0_" \o ForecastSuffix(k))) = 1
            /\ \A k \in SunmoonKeys :
                 LenOf(day, k) > 0 <=>
                 Count(published, StateTopic(SunmoonEntity(k))) = 1

\* C5 amended: missing sections and fields publish nothing and raise
\* nothing; every current field present is published; the data_day fields
\* present are published provided data_day.time is present and non-empty
\* (a forecast field for the days below len(time)), and not at all
\* otherwise.
C5_PartialData ==
    (call.fn = "poll" /\ call.result # "fetch_error" /\ WellFormed(call.weather_data)) =>
        LET day == DayOf(call.weather_data)
        IN  /\ PartialCurrent(call.weather_data)
            /\ \A k \in ForecastKeys : \A N \in 0..MaxDays :
                 (N < LenOf(day, k) /\ N < LenOf(day, "time")) <=>
                 Count(published, StateTopic("forecast_day_" \o ToString(N) \o "_" \o ForecastSuffix(k))) = 1
            /\ \A k \in SunmoonKeys :
                 (LenOf(day, k) > 0 /\ LenOf(day, "time") > 0) <=>
                 Count(published, StateTopic(SunmoonEntity(k))) = 1

\* C5 witness: no data_current, and a data_day holding only some fields
C5_Witness ==
    /\ call.fn = "poll" /\ call.result = "ok"
    /\ "data_current" \notin DOMAIN call.weather_data
    /\ DOMAIN DayOf(call.weather_data) = {"time", "temperature_max", "sunrise"}
    /\ Len(published) >= 2
    /\ log = <<>>

\* C9 as claimed: whenever main is left after the session was set up, the
\* session was set up once and closed once, and the message-bus client is
\* stopped and disconnected.
C9_Original ==
    (pc = "exited" /\ hist.setups > 0) =>
        /\ hist.setups = 1
        /\ hist.closes = 1
        /\ session = "closed"
        /\ ~mqtt.loop_running
        /\ ~mqtt.connected

\* C10 as claimed: every state message goes to the state_topic of a
\* discovery message published at startup.
C10_Original ==
    \A i \in 1..Len(published) :
        \E j \in 1..Len(discovery) :
            discovery[j].payload["state_topic"] = published[i].topic

====
